---- MODULE Spec2Model ----
(***************************************************************************)
(* ClaritaPM: the MCP server of src/main.py driving the behaviour tree of  *)
(* src/llm_behavior_tree.py.  The server loop reads one request, handles   *)
(* it to completion and writes the response.  A workflow run (execute)     *)
(* builds a fresh tree, ticks it under py_trees semantics (Sequence with   *)
(* memory, Behaviour.tick) and extracts a result from the tree by name.    *)
(* The LLM collaborators (extractor, validator, text) are the environment: *)
(* each call either raises or returns one of a small set of answers.       *)
(* ended is a history variable: the session ids for which a workflow run   *)
(* has ended without suspending.  fallback holds the last call of the      *)
(* pattern matcher _fallback_parsing made on its own: text and result.     *)
(***************************************************************************)
EXTENDS Integers, Sequences, FiniteSets, TLC

VARIABLES sessions, pending, response, run, ended, fallback

vars == <<sessions, pending, response, run, ended, fallback>>

----------------------------------------------------------------------------
(* Bounds of the model *)

\* longest conversation_history the model lets a session grow to
MaxHistory == 2

\* number of distinct session ids a caller uses (besides a missing id)
NumSessionIds == 2

\* the tick loop is unrolled 2^LoopDoublings times, more than its cap
LoopDoublings == 7

\* the longest text, in words, given to the pattern matcher on its own
MaxWords == 4

----------------------------------------------------------------------------
(* Values *)

\* Python None, and a key that is missing from a dict
NoneVal == "<None>"
Absent == "<absent>"

\* py_trees.common.Status
SUCCESS == "SUCCESS"
FAILURE == "FAILURE"
RUNNING == "RUNNING"
INVALID == "INVALID"

\* the tick cap of execute
max_ticks == 100

AllSessionIds == <<"s1", "s2", "s3", "s4">>
SessionIds == {AllSessionIds[i] : i \in 1..NumSessionIds}
\* the session_id argument of a request: an id, or None when it is missing
SessionArgs == SessionIds \cup {NoneVal}

\* request texts: the empty text and scenario A of the specification
Descriptions == {"", "Add a save button to the dashboard page"}

\* user replies as character sequences; <<>> is the empty or missing reply
NoReply == <<>>
Replies == { NoReply,
             <<"y","e","s">>,
             <<"n","o">>,
             <<"N","O">>,
             <<"n","o"," ","o","k">>,
             <<"l","a","t","e","r">> }

\* what the extractor (parse_with_llm) can do: raise, or return the three
\* fields, each a value or None
Raises == [raises |-> TRUE, target_page |-> NoneVal, feature_type |-> NoneVal,
           action |-> NoneVal]
Fields(tp, ft, act) == [raises |-> FALSE, target_page |-> tp, feature_type |-> ft,
                        action |-> act]
ExtractOutcomes ==
  { Raises,
    Fields("dashboard", "button", "save"),
    Fields("dashboard", "button", "refresh"),
    Fields("dashboard", "button", NoneVal),
    Fields(NoneVal, "button", NoneVal),
    Fields("dashboard", NoneVal, "save"),
    Fields(NoneVal, NoneVal, NoneVal) }

\* what the validator (parse_validation_with_llm) can do: raise, or answer
\* can_proceed_autonomously with a missing_info list
ValidateOutcomes ==
  { [raises |-> TRUE,  can_proceed_autonomously |-> FALSE, missing_info |-> <<>>],
    [raises |-> FALSE, can_proceed_autonomously |-> TRUE,  missing_info |-> <<>>],
    [raises |-> FALSE, can_proceed_autonomously |-> FALSE,
     missing_info |-> <<"target_page">>] }

\* the plain-text LLM call of ticket generation raises or returns
TextOutcomes == { [raises |-> TRUE], [raises |-> FALSE] }

Envs == [extract : ExtractOutcomes, validate : ValidateOutcomes, text : TextOutcomes]

\* Python's "word in text" on character sequences
Contains(word, text) ==
  \E i \in 1..(Len(text) - Len(word) + 1) : SubSeq(text, i, i + Len(word) - 1) = word

----------------------------------------------------------------------------
(* Dicts of the workflow *)

\* parsed_data: {} is the record with every key absent
EmptyParsed == [target_page |-> Absent, feature_type |-> Absent, action |-> Absent,
                original_request |-> Absent]

\* _create_langchain_chain: the dict the extractor returns for a description
ParsedResult(out, description) ==
  [target_page |-> out.target_page, feature_type |-> out.feature_type,
   action |-> out.action, original_request |-> description]

\* the context dict execute shares with every node
InitContext(feature_request, user_response) ==
  [feature_request |-> feature_request,
   user_response |-> user_response,
   waiting_for_user_response |-> FALSE,
   clarification_needed |-> FALSE,
   parsed_data |-> EmptyParsed,
   has_enough_info |-> FALSE,
   missing_info |-> <<>>,
   clarification_questions |-> <<>>,
   codebase_search_queries |-> <<>>,
   tickets |-> <<>>,
   interactive_prompt |-> <<>>,
   should_continue |-> Absent]

----------------------------------------------------------------------------
(* The pattern matcher _fallback_parsing of llm_parser *)

\* the words the texts given to the matcher on its own are made of
FallbackVocabulary == {"a", "the", "login", "button", "page"}

\* no call of the matcher yet
NoFallback == [called |-> FALSE, words |-> <<>>,
               result |-> [target_page |-> NoneVal, feature_type |-> NoneVal,
                           action |-> NoneVal]]

\* description.lower() as its sequence of words; the texts of the model are
\* words separated by single blanks
Words(description) ==
  IF description = "Add a save button to the dashboard page"
  THEN <<"add", "a", "save", "button", "to", "the", "dashboard", "page">>
  ELSE <<>>

\* the characters of the words of the texts and of the patterns
Chars(word) ==
  CASE word = "add"       -> <<"a","d","d">>
    [] word = "a"         -> <<"a">>
    [] word = "save"      -> <<"s","a","v","e">>
    [] word = "button"    -> <<"b","u","t","t","o","n">>
    [] word = "to"        -> <<"t","o">>
    [] word = "the"       -> <<"t","h","e">>
    [] word = "dashboard" -> <<"d","a","s","h","b","o","a","r","d">>
    [] word = "page"      -> <<"p","a","g","e">>
    [] word = "on"        -> <<"o","n">>
    [] word = "in"        -> <<"i","n">>
    [] word = "create"    -> <<"c","r","e","a","t","e">>
    [] word = "component" -> <<"c","o","m","p","o","n","e","n","t">>
    [] word = "implement" -> <<"i","m","p","l","e","m","e","n","t">>
    [] word = "new"       -> <<"n","e","w">>
    [] word = "form"      -> <<"f","o","r","m">>
    [] word = "field"     -> <<"f","i","e","l","d">>
    [] word = "link"      -> <<"l","i","n","k">>
    [] word = "when"      -> <<"w","h","e","n">>
    [] word = "clicked"   -> <<"c","l","i","c","k","e","d">>
    [] word = "data"      -> <<"d","a","t","a">>
    [] word = "should"    -> <<"s","h","o","u","l","d">>
    [] word = "will"      -> <<"w","i","l","l">>
    [] word = "login"     -> <<"l","o","g","i","n">>
    [] word = "profile"   -> <<"p","r","o","f","i","l","e">>
    [] word = "settings"  -> <<"s","e","t","t","i","n","g","s">>
    [] word = "admin"     -> <<"a","d","m","i","n">>
    [] word = "about"     -> <<"a","b","o","u","t">>
    [] word = "home"      -> <<"h","o","m","e">>
    [] OTHER              -> <<>>

\* the text as characters: the words joined by blanks
RECURSIVE TextChars(_)
TextChars(ws) ==
  IF ws = <<>> THEN <<>>
  ELSE IF Len(ws) = 1 THEN Chars(ws[1])
  ELSE Chars(ws[1]) \o <<" ">> \o TextChars(Tail(ws))

\* the group (\w+) of a pattern; the elements of a pattern are joined by \s+
Group == "(\\w+)"

page_patterns ==
  << <<"to", "the", Group, "page">>,
     <<"on", "the", Group, "page">>,
     <<"in", "the", Group, "page">>,
     <<Group, "page">> >>

common_pages == <<"dashboard", "login", "profile", "settings", "admin", "about", "home">>

feature_patterns ==
  << <<"add", Group, "button">>,
     <<"create", Group, "component">>,
     <<"implement", Group>>,
     <<"new", Group>>,
     <<Group, "button">>,
     <<Group, "form">>,
     <<Group, "field">> >>

common_features == <<"button", "form", "field", "link", "component">>

action_patterns ==
  << <<Group, "when", "clicked">>,
     <<Group, "the", "page">>,
     <<Group, "data">>,
     <<"should", Group>>,
     <<"will", Group>> >>

FilteredFeatures == {"a", "the", "this", "that", "some", "any"}
FilteredActions == FilteredFeatures \cup {"be", "do", "have"}

EndsWith(word, lit) ==
  LET w == Chars(word)
      l == Chars(lit)
  IN Len(l) <= Len(w) /\ SubSeq(w, Len(w) - Len(l) + 1, Len(w)) = l

StartsWith(word, lit) ==
  LET w == Chars(word)
      l == Chars(lit)
  IN Len(l) <= Len(w) /\ SubSeq(w, 1, Len(l)) = l

\* an unanchored pattern on a text of words: its first literal may end a
\* word, its last literal may begin one, a literal in between is a whole
\* word, and the group takes a whole word
ElementMatches(pattern, k, word) ==
  IF pattern[k] = Group THEN TRUE
  ELSE IF k = 1 THEN EndsWith(word, pattern[k])
  ELSE IF k = Len(pattern) THEN StartsWith(word, pattern[k])
  ELSE word = pattern[k]

MatchesAt(pattern, ws, i) ==
  /\ i + Len(pattern) - 1 <= Len(ws)
  /\ \A k \in 1..Len(pattern) : ElementMatches(pattern, k, ws[i + k - 1])

\* re.search(pattern, text): group(1) of the leftmost match, None without one
Search(pattern, ws) ==
  LET starts == {i \in 1..Len(ws) : MatchesAt(pattern, ws, i)}
      g == CHOOSE k \in 1..Len(pattern) : pattern[k] = Group
  IN IF starts = {} THEN NoneVal
     ELSE ws[(CHOOSE i \in starts : \A j \in starts : i <= j) + g - 1]

\* the loop over a pattern list from pattern k: the first pattern whose
\* match is not a filtered word decides; a filtered match is dropped and the
\* loop goes on
RECURSIVE FirstMatch(_, _, _, _)
FirstMatch(patterns, ws, filtered, k) ==
  IF k > Len(patterns) THEN NoneVal
  ELSE LET m == Search(patterns[k], ws) IN
       IF m # NoneVal /\ m \notin filtered THEN m
       ELSE FirstMatch(patterns, ws, filtered, k + 1)

\* direct matching: the first name of the list that occurs in the text
DirectMatch(names, ws) ==
  LET hits == {i \in 1..Len(names) : Contains(Chars(names[i]), TextChars(ws))}
  IN IF hits = {} THEN NoneVal
     ELSE names[CHOOSE i \in hits : \A j \in hits : i <= j]

\* the three fields _fallback_parsing extracts from a text given as its
\* lower-case words
FallbackFields(ws) ==
  LET page == FirstMatch(page_patterns, ws, {}, 1)
      feature == FirstMatch(feature_patterns, ws, FilteredFeatures, 1)
  IN [target_page |-> IF page # NoneVal THEN page ELSE DirectMatch(common_pages, ws),
      feature_type |-> IF feature # NoneVal THEN feature
                       ELSE DirectMatch(common_features, ws),
      action |-> FirstMatch(action_patterns, ws, FilteredActions, 1)]

\* _fallback_parsing(description)
_fallback_parsing(description) ==
  LET fields == FallbackFields(Words(description))
  IN [target_page |-> fields.target_page,
      feature_type |-> fields.feature_type,
      action |-> fields.action,
      original_request |-> description]

----------------------------------------------------------------------------
(* The tree built by create_tree *)

Nodes == {"root", "parse", "check", "sel", "infoSeq", "info", "promptC",
          "genSeq", "gen", "promptT"}

\* children of each node, in add_child order
Children ==
  [n \in Nodes |->
     CASE n = "root"    -> <<"parse", "check", "sel">>
       [] n = "sel"     -> <<"infoSeq", "genSeq">>
       [] n = "infoSeq" -> <<"info", "promptC">>
       [] n = "genSeq"  -> <<"gen", "promptT">>
       [] OTHER         -> <<>>]

\* the name each node is constructed with
NodeName ==
  [n \in Nodes |->
     CASE n = "root"    -> "SimpleProjectManagerRoot"
       [] n = "parse"   -> "ParseFeatureRequest"
       [] n = "check"   -> "CheckIfEnoughInfo"
       [] n = "sel"     -> "InfoDecision"
       [] n = "infoSeq" -> "GetMoreInformation"
       [] n = "info"    -> "GetMoreInfo"
       [] n = "promptC" -> "InteractivePrompt"
       [] n = "genSeq"  -> "GenerateTickets"
       [] n = "gen"     -> "GenerateTickets"
       [] n = "promptT" -> "InteractivePrompt"]

\* nodes in depth-first pre-order, the order find_node_by_name visits them
RECURSIVE PreOrder(_)
RECURSIVE PreOrderAll(_)
PreOrder(n) == <<n>> \o PreOrderAll(Children[n])
PreOrderAll(cs) == IF cs = <<>> THEN <<>> ELSE PreOrder(Head(cs)) \o PreOrderAll(Tail(cs))

\* find_node_by_name: the first node in pre-order with that name, or None
find_node_by_name(name) ==
  LET order == PreOrder("root")
      hits == {i \in 1..Len(order) : NodeName[order[i]] = name}
  IN IF hits = {} THEN NoneVal
     ELSE order[CHOOSE i \in hits : \A j \in hits : i <= j]

----------------------------------------------------------------------------
(* The reply classifier *)

\* str.lower() on the characters the replies are written with
LowerChar(c) ==
  CASE c = "Y" -> "y" [] c = "E" -> "e" [] c = "S" -> "s" [] c = "N" -> "n"
    [] c = "O" -> "o" [] c = "K" -> "k" [] OTHER -> c
Lower(text) == [i \in 1..Len(text) |-> LowerChar(text[i])]

AffirmativeWords == { <<"y","e","s">>, <<"c","o","n","t","i","n","u","e">>,
                      <<"p","r","o","c","e","e","d">>, <<"o","k">>,
                      <<"s","u","r","e">> }
NegativeWords == { <<"n","o">>, <<"s","t","o","p">>, <<"c","a","n","c","e","l">>,
                   <<"e","n","d">> }

\* the classifier with the negative words tested before the affirmative ones
ShouldContinueNegativeFirst(reply) ==
  LET response_lower == Lower(reply) IN
  IF \E w \in NegativeWords : Contains(w, response_lower) THEN FALSE
  ELSE TRUE

\* the should_continue value handle_user_response computes
ShouldContinue(reply) ==
  LET response_lower == Lower(reply) IN
  IF \E w \in AffirmativeWords : Contains(w, response_lower) THEN TRUE
  ELSE IF \E w \in NegativeWords : Contains(w, response_lower) THEN FALSE
  ELSE TRUE

----------------------------------------------------------------------------
(* Ticket generation *)

\* str.title() on the field values of the model
Title(s) ==
  CASE s = "dashboard" -> "Dashboard"
    [] s = "button"    -> "Button"
    [] s = "save"      -> "Save"
    [] s = "refresh"   -> "Refresh"
    [] OTHER           -> s

\* the persistence verbs with refresh counted among them
PersistenceActionsWithRefresh == {"save", "submit", "update", "delete", "create", "refresh"}

PersistenceActions == {"save", "submit", "update", "delete", "create"}

\* parsed_data.get(key, ''): the value, '' when the key is missing
GetOrEmpty(v) == IF v = Absent THEN "" ELSE v

\* _generate_fallback_tickets raises AttributeError when it calls .title()
\* on None: feature_type and target_page are title-cased unconditionally
FallbackTicketsRaise(parsed_data) ==
  \/ GetOrEmpty(parsed_data.feature_type) = NoneVal
  \/ GetOrEmpty(parsed_data.target_page) = NoneVal

\* the ticket list with the frontend subtask depending on the testing
\* subtask, which follows it in the list
_generate_fallback_tickets_forward(parsed_data) ==
  LET target_page == GetOrEmpty(parsed_data.target_page)
      feature_type == GetOrEmpty(parsed_data.feature_type)
      action == GetOrEmpty(parsed_data.action)
      parent_story ==
        [type |-> "parent_story",
         title |-> <<"Implement", Title(feature_type), "on", Title(target_page), "Page">>,
         has_parent |-> FALSE, parent |-> <<>>,
         dependencies |-> <<>>]
      frontend_subtask ==
        [type |-> "subtask",
         title |-> <<"Create", Title(feature_type), "Component for", Title(target_page)>>,
         has_parent |-> TRUE, parent |-> parent_story.title,
         dependencies |-> << <<"Test", Title(feature_type), "Implementation">> >>]
      backend_subtask ==
        [type |-> "subtask",
         title |-> <<"Implement", Title(action), "API Endpoint">>,
         has_parent |-> FALSE, parent |-> <<>>,
         dependencies |-> <<frontend_subtask.title>>]
      testing_subtask ==
        [type |-> "subtask",
         title |-> <<"Test", Title(feature_type), "Implementation">>,
         has_parent |-> TRUE, parent |-> parent_story.title,
         dependencies |-> <<frontend_subtask.title>>]
  IN <<parent_story, frontend_subtask>>
     \o (IF action \in PersistenceActions THEN <<backend_subtask>> ELSE <<>>)
     \o <<testing_subtask>>

\* the ticket list of _generate_fallback_tickets; a title is the sequence of
\* the words of its f-string; a missing 'parent' key is has_parent = FALSE
_generate_fallback_tickets(parsed_data) ==
  LET target_page == GetOrEmpty(parsed_data.target_page)
      feature_type == GetOrEmpty(parsed_data.feature_type)
      action == GetOrEmpty(parsed_data.action)
      parent_story ==
        [type |-> "parent_story",
         title |-> <<"Implement", Title(feature_type), "on", Title(target_page), "Page">>,
         has_parent |-> FALSE, parent |-> <<>>,
         dependencies |-> <<>>]
      frontend_subtask ==
        [type |-> "subtask",
         title |-> <<"Create", Title(feature_type), "Component for", Title(target_page)>>,
         has_parent |-> TRUE, parent |-> parent_story.title,
         dependencies |-> <<>>]
      backend_subtask ==
        [type |-> "subtask",
         title |-> <<"Implement", Title(action), "API Endpoint">>,
         has_parent |-> FALSE, parent |-> <<>>,
         dependencies |-> <<frontend_subtask.title>>]
      testing_subtask ==
        [type |-> "subtask",
         title |-> <<"Test", Title(feature_type), "Implementation">>,
         has_parent |-> TRUE, parent |-> parent_story.title,
         dependencies |-> <<frontend_subtask.title>>]
  IN <<parent_story, frontend_subtask>>
     \o (IF action \in PersistenceActions THEN <<backend_subtask>> ELSE <<>>)
     \o <<testing_subtask>>

----------------------------------------------------------------------------
(* Prompts *)

\* prompt_message of an InteractivePromptNode before it renders anything
EmptyPrompt == [kind |-> "empty", questions |-> <<>>, queries |-> <<>>,
                parsed_data |-> EmptyParsed, tickets |-> <<>>]

\* the clarification prompt: the questions, the searches and what was parsed
ClarificationPrompt(ctx) ==
  [kind |-> "clarification", questions |-> ctx.clarification_questions,
   queries |-> ctx.codebase_search_queries, parsed_data |-> ctx.parsed_data,
   tickets |-> <<>>]

\* the ticket-presentation prompt
TicketPrompt(ctx) ==
  [kind |-> "tickets", questions |-> <<>>, queries |-> <<>>,
   parsed_data |-> EmptyParsed, tickets |-> ctx.tickets]

FallbackQuestions ==
  << "Which page should this feature be added to?",
     "What type of feature should be added?",
     "What should happen when this feature is used?" >>

\* search_queries default of GetMoreInfoNode: parsed_data.get(key, default)
FallbackQueries(parsed_data) ==
  << <<"search for",
       IF parsed_data.target_page = Absent THEN "dashboard" ELSE parsed_data.target_page,
       "components">>,
     <<"search for",
       IF parsed_data.feature_type = Absent THEN "button" ELSE parsed_data.feature_type,
       "implementations">> >>

----------------------------------------------------------------------------
(* The state of one tree during execute *)

\* a freshly created tree with the context of this run
NewTree(feature_request, user_response) ==
  [st |-> [n \in Nodes |-> INVALID],
   cur |-> [root |-> 0, infoSeq |-> 0, genSeq |-> 0],
   ctx |-> InitContext(feature_request, user_response),
   parsed_data |-> EmptyParsed,
   tickets |-> <<>>,
   questions |-> <<>>,
   queries |-> <<>>,
   prompt |-> [promptC |-> EmptyPrompt, promptT |-> EmptyPrompt],
   calls |-> [extract |-> 0, validate |-> 0, text |-> 0, generate |-> 0]]

SetStatus(t, n, s) == [t EXCEPT !.st[n] = s]

\* ParseFeatureRequestNode.update
ParseUpdate(t, env) ==
  IF t.ctx.feature_request = "" THEN SetStatus(t, "parse", FAILURE)
  ELSE LET c == [t EXCEPT !.calls.extract = @ + 1] IN
       IF env.extract.raises THEN SetStatus(c, "parse", FAILURE)
       ELSE LET pd == ParsedResult(env.extract, t.ctx.feature_request) IN
            SetStatus([c EXCEPT !.parsed_data = pd, !.ctx.parsed_data = pd],
                      "parse", SUCCESS)

\* CheckIfEnoughInfoNode.update
CheckUpdate(t, env) ==
  IF t.ctx.parsed_data = EmptyParsed THEN SetStatus(t, "check", FAILURE)
  ELSE LET c == [t EXCEPT !.calls.validate = @ + 1] IN
       IF env.validate.raises THEN SetStatus(c, "check", FAILURE)
       ELSE IF env.validate.can_proceed_autonomously
       THEN SetStatus([c EXCEPT !.ctx.has_enough_info = TRUE,
                                !.ctx.missing_info = <<>>], "check", SUCCESS)
       ELSE SetStatus([c EXCEPT !.ctx.has_enough_info = FALSE,
                                !.ctx.missing_info = env.validate.missing_info],
                      "check", FAILURE)

\* GetMoreInfoNode.update; _ask_llm calls the extractor and swallows a raise,
\* and its answer never has the keys 'questions' or 'search_queries'
GetMoreInfoUpdate(t, env) ==
  IF t.ctx.missing_info = <<>> THEN SetStatus(t, "info", SUCCESS)
  ELSE SetStatus([t EXCEPT !.calls.extract = @ + 1,
                           !.questions = FallbackQuestions,
                           !.queries = FallbackQueries(t.ctx.parsed_data),
                           !.ctx.clarification_questions = FallbackQuestions,
                           !.ctx.codebase_search_queries =
                               FallbackQueries(t.ctx.parsed_data)],
                 "info", SUCCESS)

\* GenerateTicketsNode.update keeping only the parent story when the text
\* call raises
GenerateTicketsUpdateShortFallback(t, env) ==
  IF t.ctx.parsed_data = EmptyParsed THEN SetStatus(t, "gen", FAILURE)
  ELSE LET c == [t EXCEPT !.calls.text = @ + 1, !.calls.generate = @ + 1] IN
       IF FallbackTicketsRaise(t.ctx.parsed_data) THEN SetStatus(c, "gen", FAILURE)
       ELSE LET all == _generate_fallback_tickets(t.ctx.parsed_data)
                tk == IF env.text.raises THEN <<all[1]>> ELSE all
            IN SetStatus([c EXCEPT !.tickets = tk, !.ctx.tickets = tk], "gen", SUCCESS)

\* GenerateTicketsNode.update: the ticket list is built by
\* _generate_fallback_tickets whether the text call returns or raises
GenerateTicketsUpdate(t, env) ==
  IF t.ctx.parsed_data = EmptyParsed THEN SetStatus(t, "gen", FAILURE)
  ELSE LET c == [t EXCEPT !.calls.text = @ + 1, !.calls.generate = @ + 1] IN
       IF FallbackTicketsRaise(t.ctx.parsed_data) THEN SetStatus(c, "gen", FAILURE)
       ELSE LET tk == _generate_fallback_tickets(t.ctx.parsed_data) IN
            SetStatus([c EXCEPT !.tickets = tk, !.ctx.tickets = tk], "gen", SUCCESS)

\* InteractivePromptNode.handle_user_response
handle_user_response(t, n, reply) ==
  SetStatus([t EXCEPT !.ctx.user_response = reply,
                      !.ctx.waiting_for_user_response = FALSE,
                      !.ctx.should_continue = IF ShouldContinue(reply) THEN "True" ELSE "False"],
            n, SUCCESS)

\* InteractivePromptNode.update of prompt node n
InteractivePromptUpdate(t, n) ==
  IF t.ctx.user_response # NoReply THEN handle_user_response(t, n, t.ctx.user_response)
  ELSE LET p == IF t.ctx.clarification_needed THEN ClarificationPrompt(t.ctx)
                ELSE TicketPrompt(t.ctx)
       IN SetStatus([t EXCEPT !.prompt[n] = p,
                              !.ctx.interactive_prompt = <<p>>,
                              !.ctx.waiting_for_user_response = TRUE],
                    n, RUNNING)

----------------------------------------------------------------------------
(* Ticking the tree: py_trees Behaviour.tick and Sequence.tick (memory=True) *)

\* Sequence.tick from a status other than RUNNING stops every child that is
\* not INVALID
ResetChildren(t, seq) ==
  [t EXCEPT !.st = [n \in Nodes |->
      IF \E i \in 1..Len(Children[seq]) : Children[seq][i] = n THEN INVALID ELSE @[n]]]

RECURSIVE TickNode(_, _, _)
RECURSIVE SeqFrom(_, _, _, _)

\* the loop of Sequence.tick over its children from 0-based index i: a child
\* that is not SUCCESS decides the status, otherwise current_child advances
SeqFrom(t, seq, i, env) ==
  IF i >= Len(Children[seq]) THEN SetStatus(t, seq, SUCCESS)
  ELSE LET child == Children[seq][i + 1]
           t1 == TickNode(t, child, env)
       IN IF t1.st[child] # SUCCESS THEN SetStatus(t1, seq, t1.st[child])
          ELSE SeqFrom([t1 EXCEPT !.cur[seq] =
                           IF i + 1 < Len(Children[seq]) THEN i + 1 ELSE i],
                       seq, i + 1, env)

\* a Sequence without memory: every tick starts again at the first child
SequenceTickNoMemory(t, seq, env) ==
  SeqFrom(ResetChildren([t EXCEPT !.cur[seq] = 0], seq), seq, 0, env)

\* Sequence.tick: restart from the first child unless RUNNING, else resume
\* at current_child
SequenceTick(t, seq, env) ==
  IF t.st[seq] # RUNNING
  THEN SeqFrom(ResetChildren([t EXCEPT !.cur[seq] = 0], seq), seq, 0, env)
  ELSE SeqFrom(t, seq, t.cur[seq], env)

\* SimpleSelector.update: ticks the second child when the context says
\* has_enough_info, the first otherwise, and takes that child's status
SimpleSelectorUpdate(t, env) ==
  LET branch == IF t.ctx.has_enough_info THEN Children["sel"][2] ELSE Children["sel"][1]
      t1 == SequenceTick(t, branch, env)
  IN SetStatus(t1, "sel", t1.st[branch])

TickNode(t, n, env) ==
  CASE n = "parse" -> ParseUpdate(t, env)
    [] n = "check" -> CheckUpdate(t, env)
    [] n = "info"  -> GetMoreInfoUpdate(t, env)
    [] n = "gen"   -> GenerateTicketsUpdate(t, env)
    [] n \in {"promptC", "promptT"} -> InteractivePromptUpdate(t, n)
    [] n = "sel"   -> SimpleSelectorUpdate(t, env)
    [] OTHER       -> SequenceTick(t, n, env)

\* tree.tick_once()
tick_once(t, env) == TickNode(t, "root", env)

----------------------------------------------------------------------------
(* LLMBehaviorTree.execute *)

\* _find_interactive_prompt_node
_find_interactive_prompt_node == find_node_by_name("InteractivePrompt")

\* the condition of the while loop of execute
LoopContinues(status, tick_count) ==
  status # SUCCESS /\ status # FAILURE /\ tick_count < max_ticks

\* a result dict; a key the dict does not have is Absent
Result(path, waiting, prompt, clar, questions, queries, parsed, tickets) ==
  [raised |-> FALSE,
   execution_path |-> path,
   waiting_for_user_input |-> waiting,
   prompt_message |-> prompt,
   clarification_needed |-> clar,
   clarification_questions |-> questions,
   codebase_search_queries |-> queries,
   parsed_data |-> parsed,
   tickets |-> tickets,
   feature_request |-> Absent,
   workspace_path |-> Absent]

\* execute left by an exception instead of a return
RaisedResult ==
  [Result("raised", FALSE, EmptyPrompt, FALSE, <<>>, <<>>, EmptyParsed, <<>>)
     EXCEPT !.raised = TRUE]

\* the suspended result returned from inside the loop
WaitingResult(t, node) ==
  Result("waiting_for_user_input", TRUE, t.prompt[node], t.ctx.clarification_needed,
         <<>>, <<>>, t.ctx.parsed_data, <<>>)

\* one pass of the while loop of execute on the loop state ls: when the
\* condition holds, tick once and count it, and leave the loop with the
\* prompt when the prompt node found by name is RUNNING; a loop that has
\* been left stays as it is
LoopBody(ls, env) ==
  IF ~ls.suspended /\ LoopContinues(ls.t.st["root"], ls.ticks)
  THEN LET t1 == tick_once(ls.t, env)
           node == _find_interactive_prompt_node
       IN [suspended |-> node # NoneVal /\ t1.st[node] = RUNNING,
           node |-> node, t |-> t1, ticks |-> ls.ticks + 1]
  ELSE ls

\* 2^k passes of the loop, nested by halves to keep the evaluation shallow
RECURSIVE Iterate(_, _, _)
Iterate(k, ls, env) ==
  IF k = 0 THEN LoopBody(ls, env)
  ELSE LET half == Iterate(k - 1, ls, env) IN
       IF half = half THEN Iterate(k - 1, half, env) ELSE half

\* the while loop of execute run until it is left; 2^LoopDoublings passes
\* are more than the loop can make
TickLoop(t, env, tick_count) ==
  Iterate(LoopDoublings,
          [suspended |-> FALSE, node |-> NoneVal, t |-> t, ticks |-> tick_count], env)

\* only a GenerateTicketsNode has the attribute tickets
HasTicketsAttr(node) == node = "gen"

\* the result extracted from the tree after the loop
ExtractResult(t) ==
  LET parse_node == find_node_by_name("ParseFeatureRequest")
      get_info_node == find_node_by_name("GetMoreInfo")
      tickets_node == find_node_by_name("GenerateTickets")
      get_info_sequence == find_node_by_name("GetMoreInformation")
      generate_tickets_sequence == find_node_by_name("GenerateTickets")
      parsed == IF parse_node # NoneVal THEN t.parsed_data ELSE EmptyParsed
  IN IF generate_tickets_sequence # NoneVal /\ t.st[generate_tickets_sequence] = SUCCESS
     THEN IF tickets_node # NoneVal /\ ~HasTicketsAttr(tickets_node) THEN RaisedResult
          ELSE Result("tickets_generated", FALSE, EmptyPrompt, FALSE, <<>>, <<>>, parsed,
                      IF tickets_node # NoneVal THEN t.tickets ELSE <<>>)
     ELSE IF get_info_sequence # NoneVal /\ t.st[get_info_sequence] = SUCCESS
     THEN Result("need_more_info", FALSE, EmptyPrompt, TRUE,
                 IF get_info_node # NoneVal THEN t.questions ELSE <<>>,
                 IF get_info_node # NoneVal THEN t.queries ELSE <<>>, parsed, <<>>)
     ELSE Result("error", FALSE, EmptyPrompt, TRUE,
                 <<"Could you please provide more details about your feature request?">>,
                 <<>>, parsed, <<>>)

\* should_continue of the context as text, Absent when never set
ShouldContinueText(ctx) ==
  IF ctx.user_response = NoReply THEN Absent
  ELSE IF ShouldContinue(ctx.user_response) THEN "True" ELSE "False"

NoEnv == [extract |-> Raises,
          validate |-> [raises |-> TRUE, can_proceed_autonomously |-> FALSE,
                        missing_info |-> <<>>],
          text |-> [raises |-> TRUE]]

\* no workflow run
NoRun ==
  [called |-> FALSE, feature_request |-> "", user_response |-> NoReply, env |-> NoEnv,
   ticks |-> 0, calls |-> [extract |-> 0, validate |-> 0, text |-> 0, generate |-> 0],
   statuses |-> [n \in Nodes |-> INVALID],
   should_continue |-> Absent,
   context |-> InitContext("", NoReply),
   result |-> RaisedResult]

\* execute(feature_request, workspace_path, user_response) under the
\* collaborator behaviour env: the result, with the ticks and calls it took,
\* the final node statuses and the context dict as the run left it
execute(feature_request, user_response, env) ==
  LET loop == TickLoop(NewTree(feature_request, user_response), env, 0) IN
  [called |-> TRUE, feature_request |-> feature_request, user_response |-> user_response,
   env |-> env,
   ticks |-> loop.ticks, calls |-> loop.t.calls,
   statuses |-> loop.t.st,
   should_continue |-> IF loop.t.st["promptC"] = SUCCESS \/ loop.t.st["promptT"] = SUCCESS
                       THEN ShouldContinueText(loop.t.ctx) ELSE Absent,
   context |-> loop.t.ctx,
   result |-> IF loop.suspended THEN WaitingResult(loop.t, loop.node)
              ELSE ExtractResult(loop.t)]

----------------------------------------------------------------------------
(* Sessions (ConversationSession) and the session store of MCPServer *)

\* ConversationSession.__init__; None is the empty sequence, a value v that
\* is set is <<v>>; created_at and the timestamps are left out
NewSession(session_id) ==
  [session_id |-> session_id,
   feature_info |-> EmptyParsed,
   conversation_history |-> <<>>,
   waiting_for_user_input |-> FALSE,
   current_prompt |-> <<>>,
   behavior_tree_state |-> <<>>]

\* ConversationSession.add_message
add_message(session, role, content) ==
  [session EXCEPT !.conversation_history = Append(@, [role |-> role, content |-> content])]

\* ConversationSession.is_complete
is_complete(session) ==
  \A v \in {session.feature_info.target_page, session.feature_info.feature_type} :
     v \notin {Absent, NoneVal, ""}

\* ConversationSession.set_waiting_for_input
set_waiting_for_input(session, prompt_message, behavior_tree_state) ==
  [session EXCEPT !.waiting_for_user_input = TRUE,
                  !.current_prompt = <<prompt_message>>,
                  !.behavior_tree_state = <<behavior_tree_state>>]

\* ConversationSession.clear_waiting_state
clear_waiting_state(session) ==
  [session EXCEPT !.waiting_for_user_input = FALSE,
                  !.current_prompt = <<>>,
                  !.behavior_tree_state = <<>>]

\* the store with the entry of session_id replaced or added
Put(store, session_id, session) ==
  [k \in DOMAIN store \cup {session_id} |-> IF k = session_id THEN session ELSE store[k]]

\* MCPServer.get_or_create_session: the store afterwards
get_or_create_session(store, session_id) ==
  IF session_id \notin DOMAIN store THEN Put(store, session_id, NewSession(session_id))
  ELSE store

----------------------------------------------------------------------------
(* Requests and responses *)

\* a request line decoded by json.loads: shape says whether the value is an
\* object and, for tools/call, whether its arguments are one; method is
\* request.get("method") and tool is params.get("name")
NoRequest == [shape |-> "object", method |-> "none", tool |-> "none",
              session_id |-> NoneVal, description |-> "", user_response |-> NoReply]

\* tools/call of tool with the arguments read by the tool
ToolCall(tool, session_id, description, user_response) ==
  [shape |-> "object", method |-> "tools/call", tool |-> tool,
   session_id |-> session_id, description |-> description,
   user_response |-> user_response]

AnalyzeRequest(session_id, description) ==
  ToolCall("analyze_feature_request", session_id, description, NoReply)

ContinueRequest(session_id, user_response) ==
  ToolCall("continue_conversation", session_id, "", user_response)

InfoRequest(session_id) ==
  ToolCall("get_session_info", session_id, "", NoReply)

ExploreRequest(session_id, description) ==
  ToolCall("explore_feature_requirements", session_id, description, NoReply)

PlanRequest(session_id, description) ==
  ToolCall("plan_feature_implementation", session_id, description, NoReply)

HealthCheckRequest == ToolCall("clarita_pm_health_check", NoneVal, "", NoReply)

\* the tools handle_request dispatches to
KnownTools == {"analyze_feature_request", "explore_feature_requirements",
               "plan_feature_implementation", "clarita_pm_health_check",
               "get_session_info", "continue_conversation"}

\* the methods handle_request has a branch for
KnownMethods == {"initialize", "notifications/initialized", "tools/list", "tools/call"}

\* a request of a method other than tools/call
MethodRequest(method) == [NoRequest EXCEPT !.method = method]

\* tools/call naming a tool the server does not have
UnknownToolRequest == ToolCall("no_such_tool", NoneVal, "", NoReply)

\* a line that is valid JSON but not an object, such as []
NotObjectRequest == [NoRequest EXCEPT !.shape = "not_object", !.method = Absent]

\* tools/call of a tool with "arguments": null
NullArgumentsRequest(tool) ==
  [ToolCall(tool, NoneVal, "", NoReply) EXCEPT !.shape = "arguments_not_object"]

\* the dict a tool returns; kind names the message text, a missing key is
\* Absent, info is <<>> unless get_session_info found the session; tool is
\* the tool of tools/call that handle_request dispatched to, and method, rpc
\* and code describe what handle_request made of it: a JSON-RPC "result", an
\* "error" with its code, "no_response" (None is returned and nothing is
\* written) or "raised" (the exception leaves handle_request)
Response(kind, session_id, path, result) ==
  [tool |-> "none",
   method |-> "none",
   rpc |-> "none",
   code |-> 0,
   kind |-> kind,
   session_id |-> session_id,
   execution_path |-> path,
   waiting_for_user_input |-> result.waiting_for_user_input,
   prompt_message |-> result.prompt_message,
   questions |-> result.clarification_questions,
   parsed_data |-> result.parsed_data,
   tickets |-> result.tickets,
   info |-> <<>>]

EmptyResult == Result(Absent, FALSE, EmptyPrompt, FALSE, <<>>, <<>>, EmptyParsed, <<>>)

\* a response that is only a message
MessageOnly(kind) == Response(kind, Absent, Absent, EmptyResult)

NoResponse == MessageOnly("none")

\* the three branches by which analyze_feature_request and
\* continue_conversation turn a result into a response
ResultResponse(session_id, result) ==
  IF result.waiting_for_user_input
  THEN Response("prompt", session_id, result.execution_path, result)
  ELSE IF result.clarification_needed
  THEN Response("clarification", session_id, result.execution_path, result)
  ELSE Response("tickets", session_id, result.execution_path, result)

\* the except branch of a tool
ErrorResponse(session_id) == Response("exception", session_id, "error", EmptyResult)

\* handle_request wrapping the dict of a tool: result.content[0].text is
\* the tool's message
RpcResult(request, tool_response) ==
  [tool_response EXCEPT !.tool = request.tool, !.method = request.method,
                        !.rpc = "result"]

\* handle_request answering with a JSON-RPC error
RpcError(request, code, kind) ==
  [MessageOnly(kind) EXCEPT !.tool = request.tool, !.method = request.method,
                            !.rpc = "error", !.code = code]

\* handle_request returning None: main writes nothing
RpcNoResponse(request) ==
  [MessageOnly("none") EXCEPT !.tool = request.tool, !.method = request.method,
                              !.rpc = "no_response"]

\* an exception leaving handle_request: main logs it and writes nothing
RpcRaised(request) ==
  [MessageOnly("none") EXCEPT !.tool = request.tool, !.method = request.method,
                              !.rpc = "raised"]

----------------------------------------------------------------------------
(* The tools *)

\* analyze_feature_request: the response
AnalyzeResponse(session_id, r) ==
  IF r.result.raised THEN ErrorResponse(session_id)
  ELSE ResultResponse(session_id, r.result)

\* analyze_feature_request: the store afterwards; the session is created and
\* set waiting only when the result is a suspension
AnalyzeSessions(store, session_id, r) ==
  IF ~r.result.raised /\ r.result.waiting_for_user_input
  THEN LET s1 == get_or_create_session(store, session_id) IN
       Put(s1, session_id,
           set_waiting_for_input(s1[session_id], r.result.prompt_message, r.result))
  ELSE store

\* explore_feature_requirements and plan_feature_implementation: the
\* response; done names the message of the branch without clarification.
\* Neither dict has the keys waiting_for_user_input and prompt_message, so a
\* suspension of the run is not passed on; the clarification dict has no
\* tickets and the other one no questions
ExploreOrPlanResponse(session_id, r, done) ==
  IF r.result.raised THEN ErrorResponse(session_id)
  ELSE IF r.result.clarification_needed
  THEN [Response("clarification", session_id, r.result.execution_path, r.result)
          EXCEPT !.waiting_for_user_input = FALSE,
                 !.prompt_message = EmptyPrompt,
                 !.tickets = <<>>]
  ELSE [Response(done, session_id, r.result.execution_path, r.result)
          EXCEPT !.waiting_for_user_input = FALSE,
                 !.prompt_message = EmptyPrompt,
                 !.questions = <<>>]

\* clarita_pm_health_check: the tree can always be created, and the LLM is
\* healthy when the test call of the extractor returns
HealthCheckResponse(env) ==
  IF env.extract.raises THEN MessageOnly("unhealthy") ELSE MessageOnly("healthy")

\* the early returns of continue_conversation, "" when the call is accepted
ContinueRejection(store, session_id, user_response) ==
  IF session_id = NoneVal THEN "session_id_required"
  ELSE IF user_response = NoReply THEN "user_response_required"
  ELSE IF session_id \notin DOMAIN store THEN "session_not_found"
  ELSE IF ~store[session_id].waiting_for_user_input THEN "not_waiting"
  ELSE ""

\* behavior_tree_state.get('feature_request', '')
StoredFeatureRequest(state) ==
  IF state.feature_request = Absent THEN "" ELSE state.feature_request

\* the workflow run of an accepted continue_conversation, NoRun when the
\* call is rejected or the session has no stored state
ContinueRun(store, session_id, user_response, env) ==
  IF ContinueRejection(store, session_id, user_response) # "" THEN NoRun
  ELSE IF store[session_id].behavior_tree_state = <<>> THEN NoRun
  ELSE execute(StoredFeatureRequest(store[session_id].behavior_tree_state[1]),
               user_response, env)

\* continue_conversation looking the session up with get_or_create_session
\* before its checks, so that an unknown id leaves a new session behind
ContinueSessionsCreating(store, session_id, user_response, r) ==
  IF session_id = NoneVal \/ user_response = NoReply THEN store
  ELSE get_or_create_session(store, session_id)

\* continue_conversation: the store afterwards
ContinueSessions(store, session_id, user_response, r) ==
  IF ContinueRejection(store, session_id, user_response) # "" THEN store
  ELSE LET s1 == add_message(store[session_id], "user", user_response) IN
       IF ~r.called \/ r.result.raised THEN Put(store, session_id, s1)
       ELSE LET s2 == clear_waiting_state(s1) IN
            IF r.result.waiting_for_user_input
            THEN Put(store, session_id,
                     set_waiting_for_input(s2, r.result.prompt_message, r.result))
            ELSE Put(store, session_id, s2)

\* continue_conversation: the response
ContinueResponse(store, session_id, user_response, r) ==
  LET why == ContinueRejection(store, session_id, user_response) IN
  IF why # "" THEN MessageOnly(why)
  ELSE IF ~r.called THEN MessageOnly("no_behavior_tree_state")
  ELSE IF r.result.raised THEN ErrorResponse(session_id)
  ELSE ResultResponse(session_id, r.result)

\* get_session_info: the response; the store is not touched
InfoResponse(store, session_id) ==
  IF session_id = NoneVal THEN MessageOnly("session_id_required")
  ELSE IF session_id \in DOMAIN store
  THEN [Response("session_info", session_id, Absent, EmptyResult) EXCEPT
          !.waiting_for_user_input = store[session_id].waiting_for_user_input,
          !.info = << [feature_info |-> store[session_id].feature_info,
                       is_complete |-> is_complete(store[session_id]),
                       conversation_history |-> store[session_id].conversation_history] >>]
  ELSE MessageOnly("session_not_found")

----------------------------------------------------------------------------
(* The server loop *)

\* the empty session store
NoSessions == [k \in {} |-> NewSession(k)]

Init ==
  /\ sessions = NoSessions
  /\ pending = NoRequest
  /\ response = NoResponse
  /\ run = NoRun
  /\ ended = {}
  /\ fallback = NoFallback

\* the session ids whose workflow has ended without suspending
EndedAfter(old, session_id, r) ==
  IF r.called /\ (r.result.raised \/ ~r.result.waiting_for_user_input)
  THEN old \cup {session_id} ELSE old

\* tools/call of tool with arguments that are an object
Dispatched(tool) ==
  pending.shape = "object" /\ pending.method = "tools/call" /\ pending.tool = tool

\* main reading a request line while a request is still being handled
ReceiveWhileHandling(request) ==
  /\ request.tool = "continue_conversation" /\ request.session_id \in DOMAIN sessions
        => Len(sessions[request.session_id].conversation_history) < MaxHistory
  /\ pending' = request
  /\ response' = NoResponse
  /\ run' = NoRun
  /\ UNCHANGED <<sessions, ended, fallback>>

\* main reads the next request line once the previous response is written
Receive(request) ==
  /\ pending = NoRequest
  /\ request.tool = "continue_conversation" /\ request.session_id \in DOMAIN sessions
        => Len(sessions[request.session_id].conversation_history) < MaxHistory
  /\ pending' = request
  /\ response' = NoResponse
  /\ run' = NoRun
  /\ UNCHANGED <<sessions, ended, fallback>>

\* tools/call analyze_feature_request, to the response
HandleAnalyze(env) ==
  /\ Dispatched("analyze_feature_request")
  /\ LET r == execute(pending.description, NoReply, env) IN
       /\ run' = r
       /\ sessions' = AnalyzeSessions(sessions, pending.session_id, r)
       /\ response' = RpcResult(pending, AnalyzeResponse(pending.session_id, r))
       /\ ended' = EndedAfter(ended, pending.session_id, r)
  /\ pending' = NoRequest
  /\ UNCHANGED fallback

\* tools/call continue_conversation, to the response
HandleContinue(env) ==
  /\ Dispatched("continue_conversation")
  /\ LET r == ContinueRun(sessions, pending.session_id, pending.user_response, env) IN
       /\ run' = r
       /\ sessions' = ContinueSessions(sessions, pending.session_id,
                                       pending.user_response, r)
       /\ response' = RpcResult(pending, ContinueResponse(sessions, pending.session_id,
                                                         pending.user_response, r))
       /\ ended' = EndedAfter(ended, pending.session_id, r)
  /\ pending' = NoRequest
  /\ UNCHANGED fallback

\* get_session_info creating the session it is asked about
HandleGetSessionInfoCreating ==
  /\ Dispatched("get_session_info")
  /\ response' = RpcResult(pending, InfoResponse(sessions, pending.session_id))
  /\ run' = NoRun
  /\ pending' = NoRequest
  /\ sessions' = get_or_create_session(sessions, pending.session_id)
  /\ UNCHANGED <<ended, fallback>>

\* tools/call get_session_info, to the response
HandleGetSessionInfo ==
  /\ Dispatched("get_session_info")
  /\ response' = RpcResult(pending, InfoResponse(sessions, pending.session_id))
  /\ run' = NoRun
  /\ pending' = NoRequest
  /\ UNCHANGED <<sessions, ended, fallback>>

\* tools/call explore_feature_requirements, to the response; the tool runs
\* the workflow and only echoes the session id
HandleExplore(env) ==
  /\ Dispatched("explore_feature_requirements")
  /\ run' = execute(pending.description, NoReply, env)
  /\ response' = RpcResult(pending, ExploreOrPlanResponse(pending.session_id, run',
                                                         "requirements_analysis"))
  /\ pending' = NoRequest
  /\ UNCHANGED <<sessions, ended, fallback>>

\* tools/call plan_feature_implementation, to the response
HandlePlan(env) ==
  /\ Dispatched("plan_feature_implementation")
  /\ run' = execute(pending.description, NoReply, env)
  /\ response' = RpcResult(pending, ExploreOrPlanResponse(pending.session_id, run',
                                                         "implementation_plan"))
  /\ pending' = NoRequest
  /\ UNCHANGED <<sessions, ended, fallback>>

\* tools/call clarita_pm_health_check, to the response; the tool is called
\* with {} whatever the arguments of the request
HandleHealthCheck(env) ==
  /\ pending.shape \in {"object", "arguments_not_object"}
  /\ pending.method = "tools/call"
  /\ pending.tool = "clarita_pm_health_check"
  /\ response' = RpcResult(pending, HealthCheckResponse(env))
  /\ run' = NoRun
  /\ pending' = NoRequest
  /\ UNCHANGED <<sessions, ended, fallback>>

\* initialize and tools/list answer with a fixed result
HandleInitializeOrList ==
  /\ pending.shape = "object"
  /\ pending.method \in {"initialize", "tools/list"}
  /\ response' = RpcResult(pending, MessageOnly(pending.method))
  /\ run' = NoRun
  /\ pending' = NoRequest
  /\ UNCHANGED <<sessions, ended, fallback>>

\* notifications/initialized is acknowledged without a response
HandleInitializedNotification ==
  /\ pending.shape = "object"
  /\ pending.method = "notifications/initialized"
  /\ response' = RpcNoResponse(pending)
  /\ run' = NoRun
  /\ pending' = NoRequest
  /\ UNCHANGED <<sessions, ended, fallback>>

\* an unknown tool or an unknown method: error -32601
HandleUnknown ==
  /\ pending.shape = "object"
  /\ \/ pending.method = "tools/call" /\ pending.tool \notin KnownTools
     \/ pending.method \notin KnownMethods \cup {"none"}
  /\ response' = RpcError(pending, -32601,
                          IF pending.method = "tools/call" THEN "unknown_tool"
                          ELSE "unknown_method")
  /\ run' = NoRun
  /\ pending' = NoRequest
  /\ UNCHANGED <<sessions, ended, fallback>>

\* a tool reading arguments that are not an object raises AttributeError
\* before its own try; the except of handle_request answers -32603
HandleNullArguments ==
  /\ pending.shape = "arguments_not_object"
  /\ pending.method = "tools/call"
  /\ pending.tool \in KnownTools \ {"clarita_pm_health_check"}
  /\ response' = RpcError(pending, -32603, "internal_error")
  /\ run' = NoRun
  /\ pending' = NoRequest
  /\ UNCHANGED <<sessions, ended, fallback>>

\* a request that is not an object: request.get raises AttributeError before
\* the try of handle_request, so the exception leaves handle_request
HandleNotObject ==
  /\ pending.shape = "not_object"
  /\ response' = RpcRaised(pending)
  /\ run' = NoRun
  /\ pending' = NoRequest
  /\ UNCHANGED <<sessions, ended, fallback>>

Requests ==
  {AnalyzeRequest(s, d) : s \in SessionArgs, d \in Descriptions}
  \cup {ContinueRequest(s, u) : s \in SessionArgs, u \in Replies}
  \cup {InfoRequest(s) : s \in SessionArgs}
  \cup {ExploreRequest(NoneVal, d) : d \in Descriptions}
  \cup {PlanRequest(NoneVal, d) : d \in Descriptions}
  \cup {HealthCheckRequest, UnknownToolRequest, NotObjectRequest}
  \cup {MethodRequest(m) : m \in KnownMethods \ {"tools/call"}}
  \cup {MethodRequest("no/such/method")}
  \cup {NullArgumentsRequest(t) : t \in {"analyze_feature_request", "get_session_info"}}

Next ==
  \/ \E request \in Requests : Receive(request)
  \/ \E env \in Envs : HandleAnalyze(env)
  \/ \E env \in Envs : HandleContinue(env)
  \/ HandleGetSessionInfo
  \/ \E env \in Envs : HandleExplore(env)
  \/ \E env \in Envs : HandlePlan(env)
  \/ \E env \in Envs : HandleHealthCheck(env)
  \/ HandleInitializeOrList
  \/ HandleInitializedNotification
  \/ HandleUnknown
  \/ HandleNullArguments
  \/ HandleNotObject

Spec == Init /\ [][Next]_vars

----------------------------------------------------------------------------
(* execute called directly, with or without a reply *)

ExecuteCall(feature_request, user_response, env) ==
  /\ run' = execute(feature_request, user_response, env)
  /\ UNCHANGED <<sessions, pending, response, ended, fallback>>

NextExecute ==
  \E d \in Descriptions, u \in Replies, env \in Envs : ExecuteCall(d, u, env)

SpecExecute == Init /\ [][NextExecute]_vars

----------------------------------------------------------------------------
(* _fallback_parsing called directly *)

\* the texts: up to MaxWords words of the vocabulary, separated by blanks
FallbackTexts == UNION {[1..n -> FallbackVocabulary] : n \in 0..MaxWords}

FallbackCall(ws) ==
  /\ fallback' = [called |-> TRUE, words |-> ws, result |-> FallbackFields(ws)]
  /\ UNCHANGED <<sessions, pending, response, run, ended>>

NextFallback == \E ws \in FallbackTexts : FallbackCall(ws)

SpecFallback == Init /\ [][NextFallback]_vars

----------------------------------------------------------------------------
(* Properties *)

\* no session is ever stored: the store stays empty
NoSessionEverStored == DOMAIN sessions = {}

\* no workflow run ever returns a suspension
NeverSuspends == run.called => ~run.result.waiting_for_user_input

\* the last request handled ran the workflow for a non-empty request whose
\* parse succeeded
ParsedRun == run.called /\ run.feature_request # "" /\ ~run.env.extract.raises

GateAnswered == ParsedRun /\ ~run.env.validate.raises

\* C1: when the validator answers can_proceed_autonomously = false for a
\* non-empty request that parsed, analyze_feature_request returns a suspended
\* result whose prompt is the clarification prompt with its questions, and
\* the session is stored as waiting for input.
C1_InsufficientSuspends ==
  ( /\ response.tool = "analyze_feature_request"
    /\ GateAnswered
    /\ ~run.env.validate.can_proceed_autonomously )
  => /\ run.result.waiting_for_user_input
     /\ run.result.prompt_message.kind = "clarification"
     /\ run.result.prompt_message.questions # <<>>
     /\ response.waiting_for_user_input
     /\ response.session_id \in DOMAIN sessions
     /\ sessions[response.session_id].waiting_for_user_input

\* C2: for a request parsed to target_page, feature_type and action = save
\* with a sufficient gate, the response either is the acknowledgment
\* suspension or reports tickets_generated with exactly the 4 generated
\* tickets (1 parent story, 3 subtasks).
C2_SufficientEndsWithFourTickets ==
  ( /\ response.tool \in {"analyze_feature_request", "continue_conversation"}
    /\ GateAnswered
    /\ run.env.extract = Fields("dashboard", "button", "save")
    /\ run.env.validate.can_proceed_autonomously )
  => \/ response.waiting_for_user_input
     \/ /\ response.execution_path = "tickets_generated"
        /\ response.tickets = _generate_fallback_tickets(run.result.parsed_data)
        /\ Len(response.tickets) = 4
        /\ Cardinality({i \in 1..4 : response.tickets[i].type = "parent_story"}) = 1
        /\ Cardinality({i \in 1..4 : response.tickets[i].type = "subtask"}) = 3

\* C3: a run without a user reply that generated tickets returns, in the
\* tick in which the ticket prompt node returned RUNNING, a suspended result
\* carrying the ticket-presentation prompt; it does not tick on to the cap.
C3_TicketPromptSuspendsAtOnce ==
  ( /\ run.called
    /\ run.user_response = NoReply
    /\ run.statuses["gen"] = SUCCESS
    /\ run.statuses["promptT"] = RUNNING )
  => /\ run.result.waiting_for_user_input
     /\ run.result.prompt_message.kind = "tickets"
     /\ run.ticks = 1

\* the precondition of the four rejections of continue_conversation
C7_MustReject ==
  /\ pending.tool = "continue_conversation"
  /\ \/ pending.session_id = NoneVal
     \/ pending.user_response = NoReply
     \/ pending.session_id \notin DOMAIN sessions
     \/ ~sessions[pending.session_id].waiting_for_user_input

\* C7: continue_conversation with a missing or unknown session id, an empty
\* reply, or a session that is not waiting returns an error message, runs no
\* workflow and leaves the session store and every session unchanged.
C7_RejectedContinueChangesNothing ==
  [][ C7_MustReject =>
        /\ response'.kind \in {"session_id_required", "user_response_required",
                               "session_not_found", "not_waiting"}
        /\ response'.tickets = <<>>
        /\ ~run'.called
        /\ sessions' = sessions ]_vars

\* a continue_conversation for an unknown session id has been rejected
C7_RejectionSeen ==
  /\ response.tool = "continue_conversation"
  /\ response.kind = "session_not_found"
  /\ ~run.called

\* C9: once the workflow of a session id has ended in success or failure, a
\* later request for that id neither runs the workflow again nor leaves the
\* session waiting for input.
C9_TerminalIsSink ==
  [][ (pending.tool # "none" /\ pending.session_id \in SessionIds
       /\ pending.session_id \in ended)
      => /\ ~run'.called
         /\ pending.session_id \in DOMAIN sessions'
              => ~sessions'[pending.session_id].waiting_for_user_input ]_vars

\* C10: execute always terminates: for any behaviour of the steps its loop
\* makes at most 100 ticks of the tree, and execute then returns a result to
\* the caller.
C10_TickCap ==
  run.called =>
    /\ run.ticks <= max_ticks
    /\ ~run.result.raised

\* the run left the tick loop because the cap was exhausted: 100 ticks made
\* and the root neither SUCCESS nor FAILURE
CapExhausted(r) ==
  r.called /\ ~r.result.raised /\ ~r.result.waiting_for_user_input
  /\ r.ticks = max_ticks /\ r.statuses["root"] \notin {SUCCESS, FAILURE}

\* a step of the run returned FAILURE and failed the root
StepFailed(r) ==
  r.called /\ ~r.result.raised /\ r.statuses["root"] = FAILURE

\* the execution_path and the reason a result gives to the caller
PathAndReason(result) ==
  <<result.execution_path, result.clarification_needed, result.clarification_questions>>

\* C11: a run that stops because the tick cap is exhausted and a run in which
\* a step returned FAILURE never report the same execution_path and reason.
C11_CapDistinguishable ==
  [][ (CapExhausted(run) /\ StepFailed(run'))
        => PathAndReason(run.result) # PathAndReason(run'.result) ]_vars

\* C12: the parse step never fails: for every request text, the empty text
\* included, and whether or not the extractor raises, a run leaves the parse
\* node SUCCESS with a field set stored in the context.
C12_ParseNeverFails ==
  run.called =>
    /\ run.statuses["parse"] = SUCCESS
    /\ run.context.parsed_data # EmptyParsed

\* C13: when the extractor raises on a non-empty request, the context holds
\* the fields of _fallback_parsing for the same text and the run goes on to
\* the sufficiency gate, which consults the validator.
C13_ExtractorRaiseFallsBack ==
  (run.called /\ run.feature_request # "" /\ run.env.extract.raises)
  => /\ run.context.parsed_data = _fallback_parsing(run.feature_request)
     /\ run.statuses["parse"] = SUCCESS
     /\ run.statuses["check"] # INVALID
     /\ run.calls.validate >= 1

\* a parsed field that is None or missing
FieldAbsent(v) == v \in {Absent, NoneVal}

\* C14: the gate never reports sufficient (has_enough_info true, status
\* SUCCESS) when target_page or feature_type is absent from the parsed
\* fields, whatever the validator answers.
C14_GateRequiresPageAndType ==
  ( /\ run.called
    /\ \/ FieldAbsent(run.context.parsed_data.target_page)
       \/ FieldAbsent(run.context.parsed_data.feature_type) )
  => ~(run.context.has_enough_info /\ run.statuses["check"] = SUCCESS)

\* C15: when the validation call raises, the run generates and returns no
\* tickets and the caller receives the three fallback clarification
\* questions.
C15_ValidatorRaiseAsksFallback ==
  ( /\ response.tool = "analyze_feature_request"
    /\ ParsedRun
    /\ run.env.validate.raises )
  => /\ run.calls.generate = 0
     /\ run.context.tickets = <<>>
     /\ response.tickets = <<>>
     /\ response.questions = FallbackQuestions

\* the question asks about the page
AboutPage(question) == question = "Which page should this feature be added to?"

\* C16: a run that ends asking for clarification while target_page is absent
\* from the parsed fields returns a non-empty question list that contains a
\* question about the page.
C16_ClarificationAsksAboutPage ==
  ( /\ response.tool = "analyze_feature_request"
    /\ run.called
    /\ ~run.result.raised
    /\ run.result.clarification_needed
    /\ FieldAbsent(run.result.parsed_data.target_page) )
  => /\ response.questions # <<>>
     /\ \E i \in 1..Len(response.questions) : AboutPage(response.questions[i])

\* the token sets of the reply classifier
AffirmativeTokens == { <<"y","e","s">>, <<"c","o","n","t","i","n","u","e">>,
                       <<"p","r","o","c","e","e","d">>, <<"o","k">>, <<"s","u","r","e">> }
NegativeTokens == { <<"n","o">>, <<"s","t","o","p">>, <<"c","a","n","c","e","l">>,
                    <<"e","n","d">> }
HasAffirmative(reply) == \E w \in AffirmativeTokens : Contains(w, Lower(reply))
HasNegative(reply) == \E w \in NegativeTokens : Contains(w, Lower(reply))

\* C18: handle_user_response sets should_continue true when the lower-cased
\* reply contains an affirmative token, otherwise false when it contains a
\* negative token, and true when it contains neither; it clears
\* waiting_for_user_response and the prompt node returns SUCCESS.
C18_ReplyClassifier ==
  ( /\ run.called
    /\ run.user_response # NoReply
    /\ run.statuses["gen"] = SUCCESS )
  => /\ run.statuses["promptT"] = SUCCESS
     /\ run.context.should_continue =
          (IF HasAffirmative(run.user_response) THEN "True"
           ELSE IF HasNegative(run.user_response) THEN "False"
           ELSE "True")
     /\ ~run.context.waiting_for_user_response

\* a reply with both a negative and an affirmative token was classified
C18_MixedReplyClassified ==
  /\ run.called
  /\ HasAffirmative(run.user_response) /\ HasNegative(run.user_response)
  /\ run.statuses["promptT"] = SUCCESS
  /\ run.context.should_continue = "True"

\* the kind of a ticket, read from its type and the fixed words of its title
TicketKind(ticket) ==
  IF ticket.type = "parent_story" THEN "parent_story"
  ELSE IF ticket.title[1] = "Create" /\ ticket.title[3] = "Component for" THEN "frontend"
  ELSE IF ticket.title[1] = "Implement" /\ ticket.title[3] = "API Endpoint" THEN "backend"
  ELSE IF ticket.title[1] = "Test" THEN "testing"
  ELSE "other"

\* C19: ticket generation returns, in this order, the parent story, the
\* frontend subtask, the backend subtask if and only if action is one of
\* save, submit, update, delete, create, and the testing subtask: 4 tickets
\* for a persistence verb and 3 otherwise.
C19_TicketListShape ==
  (run.called /\ run.statuses["gen"] = SUCCESS) =>
    LET tk == run.context.tickets
        kinds == [i \in 1..Len(tk) |-> TicketKind(tk[i])]
    IN IF run.context.parsed_data.action \in {"save", "submit", "update", "delete", "create"}
       THEN kinds = <<"parent_story", "frontend", "backend", "testing">>
       ELSE kinds = <<"parent_story", "frontend", "testing">>

\* tickets were generated for the persistence verb save: four of them, the
\* backend subtask third
C19_FourTicketsGenerated ==
  /\ run.called
  /\ run.statuses["gen"] = SUCCESS
  /\ run.context.parsed_data.action = "save"
  /\ Len(run.context.tickets) = 4
  /\ TicketKind(run.context.tickets[3]) = "backend"

\* the three fields ticket generation reads
TicketFields(parsed_data) ==
  <<parsed_data.target_page, parsed_data.feature_type, parsed_data.action>>

\* C20: ticket generation is deterministic: two runs that generate tickets
\* from the same field set produce the same ticket list, whether the text
\* call succeeds or raises.
C20_TicketsDeterministic ==
  [][ ( /\ run.called /\ run.statuses["gen"] = SUCCESS
        /\ run'.called /\ run'.statuses["gen"] = SUCCESS
        /\ TicketFields(run.context.parsed_data) = TicketFields(run'.context.parsed_data) )
      => run'.context.tickets = run.context.tickets ]_vars

\* tickets were generated in a run whose text call raised
C20_GeneratedAfterTextRaise ==
  /\ run.called
  /\ run.statuses["gen"] = SUCCESS
  /\ run.env.text.raises
  /\ run.calls.text >= 1
  /\ run.context.tickets # <<>>

\* C22: analyze_feature_request with a session id that is not in the store
\* leaves a session stored for that id, whatever the outcome of the run, and
\* a later get_session_info for an id that was analysed finds the session.
C22_AnalyzeCreatesSession ==
  [][ /\ ( /\ pending.tool = "analyze_feature_request"
           /\ pending.session_id \in SessionIds
           /\ pending.session_id \notin DOMAIN sessions
           /\ pending' = NoRequest )
        => pending.session_id \in DOMAIN sessions'
      /\ ( /\ pending.tool = "get_session_info"
           /\ pending.session_id \in SessionIds
           /\ pending.session_id \in ended
           /\ pending' = NoRequest )
        => response'.kind = "session_info" ]_vars

\* C29: within one execute call each step runs at most once, however many
\* ticks the loop makes: at most one extractor call, one validator call and
\* one ticket generation (with its one text call).
C29_StepsRunOnce ==
  run.called =>
    /\ run.calls.extract <= 1
    /\ run.calls.validate <= 1
    /\ run.calls.generate <= 1
    /\ run.calls.text <= 1

\* a run that ticked to the cap with each of the three steps run once
C29_ManyTicksOneCallEach ==
  /\ run.called
  /\ run.ticks = 100
  /\ run.calls.extract = 1
  /\ run.calls.validate = 1
  /\ run.calls.generate = 1

\* C30: when ticket generation is reached with target_page, feature_type or
\* action None in the parsed data, GenerateTicketsNode returns SUCCESS with a
\* ticket list built from the fields there are; it does not return FAILURE.
C30_PartialFieldsStillGenerate ==
  ( /\ run.called
    /\ run.calls.generate >= 1
    /\ \/ run.context.parsed_data.target_page = NoneVal
       \/ run.context.parsed_data.feature_type = NoneVal
       \/ run.context.parsed_data.action = NoneVal )
  => /\ run.statuses["gen"] = SUCCESS
     /\ run.context.tickets # <<>>

\* C21: handle_request never raises past its boundary: every tools/call of a
\* known tool is answered with a JSON-RPC result carrying the text message,
\* and an unknown method or an unknown tool with error code -32601
C21_HandleRequestNeverRaises ==
  response.rpc # "none" =>
    /\ response.rpc # "raised"
    /\ (response.method = "tools/call" /\ response.tool \in KnownTools)
         => response.rpc = "result"
    /\ ( \/ response.method = "tools/call" /\ response.tool \notin KnownTools
         \/ response.method \notin KnownMethods )
         => response.rpc = "error" /\ response.code = -32601

\* C26: the server handles one request at a time: a request is read only
\* when no request is being handled, a run of the workflow happens only in
\* the step that ends the handling of the request read last, and the
\* response produced by that step is the response to that request
C26_OneRequestAtATime ==
  [][ /\ (pending' # pending /\ pending' # NoRequest) => pending = NoRequest
      /\ (run'.called /\ run' # run) => (pending # NoRequest /\ pending' = NoRequest)
      /\ response'.rpc # "none"
           => /\ pending # NoRequest /\ pending' = NoRequest
              /\ response'.tool = pending.tool
              /\ response'.method = pending.method ]_vars

\* a second request has been answered after an analysis has run to its end
C26_SecondRequestAnswered ==
  /\ ended # {}
  /\ pending = NoRequest
  /\ response.rpc = "result"
  /\ response.tool = "get_session_info"

\* C31: every entry of a generated ticket's dependencies list is the title
\* of a ticket that precedes it in the same list: the backend and testing
\* subtasks depend on the frontend subtask, and the parent story and the
\* frontend subtask have no dependencies.
C31_DependenciesPrecede ==
  (run.called /\ run.statuses["gen"] = SUCCESS) =>
    LET tk == run.context.tickets IN
    \A i \in 1..Len(tk) :
      /\ \A d \in 1..Len(tk[i].dependencies) :
            \E j \in 1..(i - 1) : tk[j].title = tk[i].dependencies[d]
      /\ TicketKind(tk[i]) \in {"parent_story", "frontend"} => tk[i].dependencies = <<>>
      /\ TicketKind(tk[i]) \in {"backend", "testing"}
           => /\ TicketKind(tk[2]) = "frontend"
              /\ tk[i].dependencies = <<tk[2].title>>

\* a generated list whose backend and testing subtasks name the frontend
\* subtask
C31_SubtasksDependOnFrontend ==
  /\ run.called
  /\ run.statuses["gen"] = SUCCESS
  /\ Len(run.context.tickets) = 4
  /\ run.context.tickets[3].dependencies = <<run.context.tickets[2].title>>
  /\ run.context.tickets[4].dependencies = <<run.context.tickets[2].title>>

\* C34: get_session_info is read-only: it answers with the session's status
\* and history for a known id and with not found for an unknown id, and in
\* both cases the store is the same afterwards.
C34_GetSessionInfoReadOnly ==
  [][ ( /\ pending.tool = "get_session_info"
        /\ pending.shape = "object"
        /\ pending' = NoRequest )
      => /\ sessions' = sessions
         /\ pending.session_id \in DOMAIN sessions
              => /\ response'.kind = "session_info"
                 /\ response'.info[1].conversation_history
                      = sessions[pending.session_id].conversation_history
         /\ (pending.session_id \in SessionIds /\ pending.session_id \notin DOMAIN sessions)
              => response'.kind = "session_not_found" ]_vars

\* get_session_info has answered not found for a session id
C34_UnknownIdAnswered ==
  /\ response.tool = "get_session_info"
  /\ response.rpc = "result"
  /\ response.kind = "session_not_found"
  /\ DOMAIN sessions = {}

\* C35: execute returns a result for every final state of the tree, with
\* execution_path one of waiting_for_user_input, tickets_generated,
\* need_more_info, error; it never raises while extracting the result.
C35_ExecuteAlwaysReturns ==
  run.called =>
    /\ ~run.result.raised
    /\ run.result.execution_path \in
         {"waiting_for_user_input", "tickets_generated", "need_more_info", "error"}

\* C39: every subtask produced by ticket generation carries a parent
\* reference equal to the title of the parent story of the same list.
C39_SubtasksReferenceParent ==
  (run.called /\ run.statuses["gen"] = SUCCESS) =>
    LET tk == run.context.tickets IN
    \A i \in 1..Len(tk) :
      tk[i].type = "subtask" => (tk[i].has_parent /\ tk[i].parent = tk[1].title)

\* the first pattern of the list, in list order, that matches the text; 0
\* when none does
FirstMatching(patterns, ws) ==
  LET hits == {k \in 1..Len(patterns) : Search(patterns[k], ws) # NoneVal}
  IN IF hits = {} THEN 0 ELSE CHOOSE k \in hits : \A j \in hits : k <= j

\* first-match-wins for one field: the capture of the first matching
\* pattern, and the closed vocabulary only when no pattern matches
FirstMatchWins(value, patterns, names, ws) ==
  LET k == FirstMatching(patterns, ws)
  IN IF k # 0 THEN value = Search(patterns[k], ws)
     ELSE value = DirectMatch(names, ws)

\* C33: in the fallback pattern matcher each field takes the capture of the
\* first pattern in list order that matches the text, no later pattern is
\* consulted once an earlier one has matched, and the closed vocabulary is
\* used only when no pattern matched.
C33_FirstMatchWinsPerField ==
  fallback.called =>
    /\ FirstMatchWins(fallback.result.target_page, page_patterns, common_pages,
                      fallback.words)
    /\ FirstMatchWins(fallback.result.feature_type, feature_patterns, common_features,
                      fallback.words)
    /\ FirstMatchWins(fallback.result.action, action_patterns, <<>>, fallback.words)

====
